---- MODULE Spec2Model ----
(***************************************************************************)
(* Model of the todo backend: the task endpoints of src/api/tasks.py, the  *)
(* token functions of src/core/security.py and the signup/login endpoints  *)
(* of src/api/auth.py.  Each endpoint is an operator from the stored rows  *)
(* and the request to the new rows and the HTTP response, and one action   *)
(* that applies it.  Optional values (Python None) are sequences: None is  *)
(* the empty sequence and Some(x) the one-element sequence.                *)
(***************************************************************************)
EXTENDS Integers, FiniteSets, Sequences, TLC

VARIABLES tasks, next_id, creator, now, users, next_user, auth_last, token, issued, verified,
          signup_reqs, update_reqs

vars == <<tasks, next_id, creator, now, users, next_user, auth_last, token, issued, verified,
          signup_reqs, update_reqs>>

task_vars == <<tasks, next_id, creator>>
user_vars == <<users, next_user, auth_last>>
token_vars == <<token, issued, verified>>
\* Requests in flight between two storage round trips.
race_vars == <<signup_reqs, update_reqs>>

\* ---------------------------------------------------------------- bounds
MaxTasks == 1
MaxTime == 2
MaxUsers == 3
MaxWeeks == 1

\* ---------------------------------------------------------------- values
None == <<>>
Some(x) == <<x>>

Users == {"u1", "u2"}
Titles == {"t1", "t2"}
Descriptions == {"d1"}
StatusFilters == {"all", "pending", "completed"}
TaskIds == 1..MaxTasks
\* Path ids a client may send: the ids the table assigns and one it never assigns.
RequestIds == 1..(MaxTasks + 1)

HTTP_200_OK == 200
HTTP_201_CREATED == 201
HTTP_400_BAD_REQUEST == 400
HTTP_401_UNAUTHORIZED == 401
HTTP_404_NOT_FOUND == 404

NotFoundDetail == "Task not found or you don't have permission to access it"
DeletedMessage == "Task deleted successfully"

Opt(S) == {None} \cup {Some(x) : x \in S}

\* Request bodies.  TaskCreate inherits completed from TaskBase and declares no
\* user_id key.
TaskCreate == [title : Titles, description : Opt(Descriptions), completed : BOOLEAN]
TaskUpdate == [title : Opt(Titles), description : Opt(Descriptions), completed : Opt(BOOLEAN)]

\* ---------------------------------------------------------------- task rows
\* Column defaults of the Task table for the columns create_task does not pass.
TaskDefaults(t) == [created_at |-> t, updated_at |-> t, completed_at |-> None]

\* select(Task).where(and_(Task.id == task_id, Task.user_id == current_user.id))
OwnedTask(store, user, task_id) ==
    IF task_id \in DOMAIN store /\ store[task_id].user_id = user
    THEN Some(store[task_id]) ELSE None

NotFound == [status |-> HTTP_404_NOT_FOUND, detail |-> NotFoundDetail, body |-> {}, counts |-> None]

TaskResponse(code, task) == [status |-> code, detail |-> "", body |-> {task}, counts |-> None]

Remove(store, task_id) == [i \in DOMAIN store \ {task_id} |-> store[i]]

\* ---------------------------------------------------------------- endpoints
list_tasks(store, user, status_filter) ==
    LET owned == {i \in DOMAIN store : store[i].user_id = user}
        sel == IF status_filter = "pending" THEN {i \in owned : store[i].completed = FALSE}
               ELSE IF status_filter = "completed" THEN {i \in owned : store[i].completed = TRUE}
               ELSE owned
        total == Cardinality(sel)
        pending == Cardinality({i \in sel : ~store[i].completed})
        completed == Cardinality({i \in sel : store[i].completed})
    IN [store |-> store,
        resp |-> [status |-> HTTP_200_OK, detail |-> "", body |-> {store[i] : i \in sel},
                  counts |-> Some([total |-> total, pending |-> pending, completed |-> completed])]]

\* create_task taking completed from the request body.
create_task_from_body(store, id, user, task_data, t) ==
    LET d == TaskDefaults(t)
        task == [id |-> id, title |-> task_data.title, description |-> task_data.description,
                 completed |-> task_data.completed, user_id |-> user,
                 created_at |-> d.created_at, updated_at |-> d.updated_at,
                 completed_at |-> d.completed_at]
    IN [store |-> [i \in DOMAIN store \cup {id} |-> IF i = id THEN task ELSE store[i]],
        resp |-> TaskResponse(HTTP_201_CREATED, task)]

create_task(store, id, user, task_data, t) ==
    LET d == TaskDefaults(t)
        task == [id |-> id, title |-> task_data.title, description |-> task_data.description,
                 completed |-> FALSE, user_id |-> user,
                 created_at |-> d.created_at, updated_at |-> d.updated_at,
                 completed_at |-> d.completed_at]
    IN [store |-> [i \in DOMAIN store \cup {id} |-> IF i = id THEN task ELSE store[i]],
        resp |-> TaskResponse(HTTP_201_CREATED, task)]

\* get_task looking the row up by id alone and refusing another owner's row.
get_task_forbidden(store, user, task_id) ==
    IF task_id \notin DOMAIN store THEN [store |-> store, resp |-> NotFound]
    ELSE IF store[task_id].user_id # user
         THEN [store |-> store,
               resp |-> [status |-> 403, detail |-> "Forbidden", body |-> {}, counts |-> None]]
         ELSE [store |-> store, resp |-> TaskResponse(HTTP_200_OK, store[task_id])]

get_task(store, user, task_id) ==
    LET found == OwnedTask(store, user, task_id)
    IN IF found = None THEN [store |-> store, resp |-> NotFound]
       ELSE [store |-> store, resp |-> TaskResponse(HTTP_200_OK, found[1])]

\* update_task writing description from the body whether or not it is given.
update_task_overwrite(store, user, task_id, task_data, t) ==
    LET found == OwnedTask(store, user, task_id)
    IN IF found = None THEN [store |-> store, resp |-> NotFound]
       ELSE
        LET t0 == found[1]
            t1 == IF task_data.title # None THEN [t0 EXCEPT !.title = task_data.title[1]] ELSE t0
            t2 == [t1 EXCEPT !.description = task_data.description]
            t3 == IF task_data.completed # None
                  THEN LET a == [t2 EXCEPT !.completed = task_data.completed[1]]
                       IN IF ~task_data.completed[1]
                          THEN [a EXCEPT !.completed_at = None]
                          ELSE a
                  ELSE t2
            t4 == [t3 EXCEPT !.updated_at = t]
        IN [store |-> [store EXCEPT ![task_id] = t4],
            resp |-> TaskResponse(HTTP_200_OK, t4)]

update_task(store, user, task_id, task_data, t) ==
    LET found == OwnedTask(store, user, task_id)
    IN IF found = None THEN [store |-> store, resp |-> NotFound]
       ELSE
        LET t0 == found[1]
            t1 == IF task_data.title # None THEN [t0 EXCEPT !.title = task_data.title[1]] ELSE t0
            t2 == IF task_data.description # None
                  THEN [t1 EXCEPT !.description = task_data.description] ELSE t1
            \* task.completed is assigned first; the test of "not task.completed"
            \* that follows reads the value just assigned.
            t3 == IF task_data.completed # None
                  THEN LET a == [t2 EXCEPT !.completed = task_data.completed[1]]
                       IN IF task_data.completed[1] /\ ~a.completed
                          THEN [a EXCEPT !.completed_at = Some(t)]
                          ELSE IF ~task_data.completed[1]
                               THEN [a EXCEPT !.completed_at = None]
                               ELSE a
                  ELSE t2
            t4 == [t3 EXCEPT !.updated_at = t]
        IN [store |-> [store EXCEPT ![task_id] = t4],
            resp |-> TaskResponse(HTTP_200_OK, t4)]

\* toggle_task_completion touching updated_at only when completed is given.
toggle_task_completion_lazy(store, user, task_id, completed_data, t) ==
    LET found == OwnedTask(store, user, task_id)
    IN IF found = None THEN [store |-> store, resp |-> NotFound]
       ELSE
        LET t0 == found[1]
            t1 == IF completed_data.completed # None
                  THEN LET a == [t0 EXCEPT !.completed = completed_data.completed[1],
                                           !.updated_at = t]
                       IN IF completed_data.completed[1]
                          THEN [a EXCEPT !.completed_at = Some(t)]
                          ELSE [a EXCEPT !.completed_at = None]
                  ELSE t0
        IN [store |-> [store EXCEPT ![task_id] = t1],
            resp |-> TaskResponse(HTTP_200_OK, t1)]

toggle_task_completion(store, user, task_id, completed_data, t) ==
    LET found == OwnedTask(store, user, task_id)
    IN IF found = None THEN [store |-> store, resp |-> NotFound]
       ELSE
        LET t0 == found[1]
            t1 == IF completed_data.completed # None
                  THEN LET a == [t0 EXCEPT !.completed = completed_data.completed[1]]
                       IN IF completed_data.completed[1]
                          THEN [a EXCEPT !.completed_at = Some(t)]
                          ELSE [a EXCEPT !.completed_at = None]
                  ELSE t0
            t2 == [t1 EXCEPT !.updated_at = t]
        IN [store |-> [store EXCEPT ![task_id] = t2],
            resp |-> TaskResponse(HTTP_200_OK, t2)]

\* delete_task selecting the row by id alone.
delete_task_unscoped(store, user, task_id) ==
    IF task_id \notin DOMAIN store THEN [store |-> store, resp |-> NotFound]
    ELSE [store |-> Remove(store, task_id),
          resp |-> [status |-> HTTP_200_OK, detail |-> DeletedMessage, body |-> {},
                    counts |-> None]]

delete_task(store, user, task_id) ==
    LET found == OwnedTask(store, user, task_id)
    IN IF found = None THEN [store |-> store, resp |-> NotFound]
       ELSE [store |-> Remove(store, task_id),
             resp |-> [status |-> HTTP_200_OK, detail |-> DeletedMessage, body |-> {},
                       counts |-> None]]

\* ---------------------------------------------------------------- actions
\* Bodies a client sends.  The toggle endpoint takes a TaskUpdate body and reads
\* only its completed key.
CompletedOnly == {d \in TaskUpdate : d.title = None /\ d.description = None}

ListTasks ==
    \E u \in Users, f \in StatusFilters :
        /\ tasks' = list_tasks(tasks, u, f).store
        /\ UNCHANGED <<race_vars, next_id, creator, now, user_vars, token_vars>>

CreateTask ==
    \E u \in Users, d \in TaskCreate :
        /\ next_id <= MaxTasks
        /\ tasks' = create_task(tasks, next_id, u, d, now).store
        /\ next_id' = next_id + 1
        /\ creator' = [i \in DOMAIN creator \cup {next_id} |->
                          IF i = next_id THEN u ELSE creator[i]]
        /\ UNCHANGED <<race_vars, now, user_vars, token_vars>>

GetTask ==
    \E u \in Users, i \in RequestIds :
        /\ tasks' = get_task(tasks, u, i).store
        /\ UNCHANGED <<race_vars, next_id, creator, now, user_vars, token_vars>>

UpdateTask ==
    \E u \in Users, i \in RequestIds, d \in TaskUpdate :
        /\ tasks' = update_task(tasks, u, i, d, now).store
        /\ UNCHANGED <<race_vars, next_id, creator, now, user_vars, token_vars>>

ToggleTaskCompletion ==
    \E u \in Users, i \in RequestIds, d \in CompletedOnly :
        /\ tasks' = toggle_task_completion(tasks, u, i, d, now).store
        /\ UNCHANGED <<race_vars, next_id, creator, now, user_vars, token_vars>>

DeleteTask ==
    \E u \in Users, i \in RequestIds :
        /\ tasks' = delete_task(tasks, u, i).store
        /\ UNCHANGED <<race_vars, next_id, creator, now, user_vars, token_vars>>

\* datetime.utcnow() read by successive requests: time passes between them.
Tick ==
    /\ now < MaxTime
    /\ now' = now + 1
    /\ UNCHANGED <<race_vars, task_vars, user_vars, token_vars>>

\* ---------------------------------------------------------------- tokens
\* settings.JWT_EXPIRATION, in seconds; instants are whole seconds.
JWT_EXPIRATION == 604800

\* timedelta values a caller passes as expires_delta.
Deltas == {0, 1, 2}

\* Python truth value of expires_delta: None and timedelta(0) are both false.
Truthy(expires_delta) == expires_delta # None /\ expires_delta[1] # 0

create_access_token(data, expires_delta, t) ==
    LET expire == IF Truthy(expires_delta) THEN t + expires_delta[1]
                  ELSE t + JWT_EXPIRATION
    IN [user_id |-> data, exp |-> expire]

\* jwt.decode raises ExpiredSignatureError (a PyJWTError) once exp has passed;
\* releases of the library differ on the instant exp itself, so both outcomes
\* are possible there.  The result is the payload or None.
verify_token(tok, t) ==
    IF t < tok.exp THEN {Some(tok)}
    ELSE IF t > tok.exp THEN {None}
    ELSE {Some(tok), None}

IssueToken ==
    \E u \in Users, d \in Opt(Deltas) :
        /\ token' = Some(create_access_token(u, d, now))
        /\ issued' = Some([t0 |-> now, ttl |-> d, user_id |-> u])
        /\ verified' = None
        /\ UNCHANGED <<race_vars, task_vars, now, user_vars>>

VerifyToken ==
    /\ token # None
    /\ \E r \in verify_token(token[1], now) :
        verified' = Some([at |-> now, result |-> r])
    /\ UNCHANGED <<race_vars, task_vars, now, user_vars, token, issued>>

\* Instants the clock visits: up to MaxTime seconds after a whole number of
\* token lifetimes, the lifetimes at most MaxWeeks.
ClockLimit == MaxWeeks * JWT_EXPIRATION + MaxTime

AdvanceClock ==
    \/ /\ now % JWT_EXPIRATION < MaxTime
       /\ now' = now + 1
       /\ UNCHANGED <<race_vars, task_vars, user_vars, token_vars>>
    \/ /\ now + JWT_EXPIRATION <= ClockLimit
       /\ now' = now + JWT_EXPIRATION
       /\ UNCHANGED <<race_vars, task_vars, user_vars, token_vars>>

\* ---------------------------------------------------------------- users
Emails == {"e1", "e2"}
Names == {"n1", "n2"}
Passwords == {"p1", "p2"}

SignupRequest == [email : Emails, password : Passwords, full_name : Names]
LoginRequest == [email : Emails, password : Passwords]

EmailRegisteredDetail == "Email already registered"
BadLoginDetail == "Incorrect email or password"

\* The hash is opaque: verify_password accepts exactly the password hashed.
get_password_hash(password) == <<"bcrypt", password>>
verify_password(plain_password, hashed_password) == hashed_password = <<"bcrypt", plain_password>>

\* select(User).where(User.email == user_data.email)
UsersByEmail(store, email) == {u \in store : u.email = email}

TokenResponse(code, user, t) ==
    [status |-> code, detail |-> "",
     access_token |-> Some(create_access_token(user.id, None, t)),
     user |-> Some([id |-> user.id, email |-> user.email, name |-> user.name])]

AuthError(code, detail) ==
    [status |-> code, detail |-> detail, access_token |-> None, user |-> None]

\* signup inserting without the existence check.
signup_unchecked(store, id, user_data, t) ==
    LET new_user == [id |-> id, email |-> user_data.email, name |-> user_data.full_name,
                     password_hash |-> get_password_hash(user_data.password)]
    IN [users |-> store \cup {new_user},
        resp |-> TokenResponse(HTTP_201_CREATED, new_user, t)]

\* id is the uuid4 drawn for the new row.
signup(store, id, user_data, t) ==
    IF UsersByEmail(store, user_data.email) # {}
    THEN [users |-> store, resp |-> AuthError(HTTP_400_BAD_REQUEST, EmailRegisteredDetail)]
    ELSE LET new_user == [id |-> id, email |-> user_data.email, name |-> user_data.full_name,
                          password_hash |-> get_password_hash(user_data.password)]
         IN [users |-> store \cup {new_user},
             resp |-> TokenResponse(HTTP_201_CREATED, new_user, t)]

login(store, user_data, t) ==
    LET found == UsersByEmail(store, user_data.email)
    IN IF found = {} \/ \A u \in found : ~verify_password(user_data.password, u.password_hash)
       THEN [users |-> store, resp |-> AuthError(HTTP_401_UNAUTHORIZED, BadLoginDetail)]
       ELSE LET user == CHOOSE u \in found : verify_password(user_data.password, u.password_hash)
            IN [users |-> store, resp |-> TokenResponse(HTTP_200_OK, user, t)]

Signup ==
    \E d \in SignupRequest :
        /\ next_user <= MaxUsers
        /\ LET r == signup(users, next_user, d, now)
           IN /\ users' = r.users
              /\ auth_last' = Some([op |-> "signup", email |-> d.email, resp |-> r.resp])
              /\ next_user' = IF r.users = users THEN next_user ELSE next_user + 1
        /\ UNCHANGED <<race_vars, task_vars, now, token_vars>>

Login ==
    \E d \in LoginRequest :
        /\ LET r == login(users, d, now)
           IN /\ users' = r.users
              /\ auth_last' = Some([op |-> "login", email |-> d.email, resp |-> r.resp])
        /\ UNCHANGED <<race_vars, task_vars, now, next_user, token_vars>>

\* ---------------------------------------------------------------- concurrent signup
\* Each request runs in its own session (get_async_session); the requests are
\* interleaved at their awaits: the select, then the commit.
Sessions == {"s1", "s2"}

HTTP_500_INTERNAL_SERVER_ERROR == 500

\* status is the response the session's last request got, 0 before any.
IdleSignup == [pc |-> "idle", data |-> None, status |-> 0]

\* INSERT into a table with no unique index on email.
insert_user_unconstrained(store, new_user) ==
    [ok |-> TRUE, users |-> store \cup {new_user}]

\* INSERT at commit: email is declared Field(unique=True), so the storage
\* refuses a second row with a stored email (IntegrityError, rolled back).
insert_user(store, new_user) ==
    IF UsersByEmail(store, new_user.email) # {}
    THEN [ok |-> FALSE, users |-> store]
    ELSE [ok |-> TRUE, users |-> store \cup {new_user}]

\* await session.execute(select ...): the existence check, answered 400 at once
\* when a row is found.
SignupCheck(s) ==
    \E d \in SignupRequest :
        /\ signup_reqs[s].pc = "idle"
        /\ next_user <= MaxUsers
        /\ signup_reqs' = [signup_reqs EXCEPT ![s] =
               IF UsersByEmail(users, d.email) # {}
               THEN [pc |-> "idle", data |-> None, status |-> HTTP_400_BAD_REQUEST]
               ELSE [pc |-> "checked", data |-> Some(d), status |-> 0]]
        /\ UNCHANGED <<task_vars, now, users, next_user, auth_last, token_vars, update_reqs>>

\* session.add(new_user); await session.commit(): an IntegrityError is not
\* caught by signup and the request is answered 500.
SignupCommit(s) ==
    /\ signup_reqs[s].pc = "checked"
    /\ LET d == signup_reqs[s].data[1]
           new_user == [id |-> next_user, email |-> d.email, name |-> d.full_name,
                        password_hash |-> get_password_hash(d.password)]
           r == insert_user(users, new_user)
       IN /\ users' = r.users
          /\ next_user' = IF r.ok THEN next_user + 1 ELSE next_user
          /\ signup_reqs' = [signup_reqs EXCEPT ![s] =
                 [pc |-> "idle", data |-> None,
                  status |-> IF r.ok THEN HTTP_201_CREATED
                             ELSE HTTP_500_INTERNAL_SERVER_ERROR]]
    /\ UNCHANGED <<task_vars, now, auth_last, token_vars, update_reqs>>

\* ---------------------------------------------------------------- concurrent updates
\* A request between its select and its commit: the endpoint, the caller, the
\* path id, the body and the row its session loaded.
IdleUpdate == [pc |-> "idle", op |-> "", user |-> "", task_id |-> 0, data |-> None,
               snap |-> None]

\* await session.commit(): the session's UPDATE sets the columns whose value
\* differs from the value the session loaded, and only those; the other
\* columns of the stored row stay as they are.  No lock is taken and no
\* version column is compared.
flush(row, loaded, modified) ==
    [row EXCEPT
        !.title = IF modified.title # loaded.title THEN modified.title ELSE @,
        !.description = IF modified.description # loaded.description
                        THEN modified.description ELSE @,
        !.completed = IF modified.completed # loaded.completed THEN modified.completed ELSE @,
        !.completed_at = IF modified.completed_at # loaded.completed_at
                         THEN modified.completed_at ELSE @,
        !.updated_at = IF modified.updated_at # loaded.updated_at
                       THEN modified.updated_at ELSE @]

\* await session.execute(select ...) of update_task or toggle_task_completion;
\* a request whose row is not found is answered 404 and is over.
UpdateRead(s) ==
    \E op \in {"update", "toggle"}, u \in Users, i \in TaskIds, d \in CompletedOnly :
        /\ update_reqs[s].pc = "idle"
        /\ LET found == OwnedTask(tasks, u, i)
           IN update_reqs' = [update_reqs EXCEPT ![s] =
                  IF found = None THEN IdleUpdate
                  ELSE [pc |-> "loaded", op |-> op, user |-> u, task_id |-> i,
                        data |-> Some(d), snap |-> found]]
        /\ UNCHANGED <<task_vars, now, user_vars, token_vars, signup_reqs>>

\* The assignments of the endpoint on the loaded row, then the commit.
UpdateCommit(s) ==
    /\ update_reqs[s].pc = "loaded"
    /\ LET q == update_reqs[s]
           loaded == q.snap[1]
           own == [j \in {q.task_id} |-> loaded]
           r == IF q.op = "update"
                THEN update_task(own, q.user, q.task_id, q.data[1], now)
                ELSE toggle_task_completion(own, q.user, q.task_id, q.data[1], now)
       IN tasks' = [tasks EXCEPT ![q.task_id] = flush(@, loaded, r.store[q.task_id])]
    /\ update_reqs' = [update_reqs EXCEPT ![s] = IdleUpdate]
    /\ UNCHANGED <<next_id, creator, now, user_vars, token_vars, signup_reqs>>

\* ---------------------------------------------------------------- specifications
Init ==
    /\ tasks = <<>>
    /\ next_id = 1
    /\ creator = <<>>
    /\ now = 0
    /\ users = {}
    /\ next_user = 1
    /\ auth_last = None
    /\ token = None
    /\ issued = None
    /\ verified = None
    /\ signup_reqs = [s \in Sessions |-> IdleSignup]
    /\ update_reqs = [s \in Sessions |-> IdleUpdate]

\* The task endpoints, called by authenticated users.
Next ==
    \/ ListTasks
    \/ CreateTask
    \/ GetTask
    \/ UpdateTask
    \/ ToggleTaskCompletion
    \/ DeleteTask
    \/ Tick

Spec == Init /\ [][Next]_vars

\* Tokens issued and verified as time passes.
NextToken ==
    \/ IssueToken
    \/ VerifyToken
    \/ AdvanceClock

SpecToken == Init /\ [][NextToken]_vars

\* Signup and login requests, one at a time.
NextUsers ==
    \/ Signup
    \/ Login
    \/ Tick

SpecUsers == Init /\ [][NextUsers]_vars

\* Signup requests running concurrently.
NextSignupRace ==
    \/ \E s \in Sessions : SignupCheck(s)
    \/ \E s \in Sessions : SignupCommit(s)

SpecSignupRace == Init /\ [][NextSignupRace]_vars

\* Update and toggle requests running concurrently on created tasks.
NextUpdateRace ==
    \/ CreateTask
    \/ \E s \in Sessions : UpdateRead(s)
    \/ \E s \in Sessions : UpdateCommit(s)
    \/ Tick

SpecUpdateRace == Init /\ [][NextUpdateRace]_vars

\* ---------------------------------------------------------------- properties
EmptyPatch == [title |-> None, description |-> None, completed |-> None]
CompletedPatch(c) == [title |-> None, description |-> None, completed |-> c]

\* The responses user a gets for path id i from the rows in store.
ByIdResponses(store, a, i) ==
    <<get_task(store, a, i).resp,
      [d \in TaskUpdate |-> update_task(store, a, i, d, now).resp],
      [d \in CompletedOnly |-> toggle_task_completion(store, a, i, d, now).resp],
      delete_task(store, a, i).resp>>

\* The rows of store that user a owns.
OwnRows(store, a) ==
    [i \in {j \in DOMAIN store : store[j].user_id = a} |-> store[i]]

\* C1: every stored task is completed if and only if its completed_at is set.
C1_CompletedIffCompletedAt ==
    \A i \in DOMAIN tasks : tasks[i].completed <=> (tasks[i].completed_at # None)

\* Outcome r of a request of user a: the response holds only a's tasks and the
\* rows of the other owners are the rows stored before it.
Isolated(a, r) ==
    /\ \A t \in r.resp.body : t.user_id = a
    /\ \A i \in DOMAIN tasks :
           tasks[i].user_id # a => i \in DOMAIN r.store /\ r.store[i] = tasks[i]
    /\ \A i \in DOMAIN r.store : r.store[i].user_id # a => i \in DOMAIN tasks

\* C2: no list, get, update, toggle or delete request of user a returns a task
\* of another owner, and the other owners' tasks are the same rows after it.
C2_OwnerIsolation ==
    \A a \in Users :
        /\ \A f \in StatusFilters : Isolated(a, list_tasks(tasks, a, f))
        /\ \A i \in RequestIds :
            /\ Isolated(a, get_task(tasks, a, i))
            /\ Isolated(a, delete_task(tasks, a, i))
            /\ \A d \in TaskUpdate : Isolated(a, update_task(tasks, a, i, d, now))
            /\ \A d \in CompletedOnly : Isolated(a, toggle_task_completion(tasks, a, i, d, now))

C2_Witness ==
    \E a \in Users, i \in DOMAIN tasks :
        /\ tasks[i].user_id # a
        /\ tasks[i].updated_at > tasks[i].created_at
        /\ delete_task(tasks, a, i).resp.status = HTTP_404_NOT_FOUND
        /\ list_tasks(tasks, a, "all").resp.body = {}

\* C3: for get, update, toggle and delete, the response for an id whose task
\* belongs to another owner equals the response for an id with no task (404,
\* same detail), and the responses do not depend on other owners' rows.
C3_UniformNotFound ==
    \A a \in Users :
        /\ \A i \in RequestIds :
               ByIdResponses(tasks, a, i) = ByIdResponses(OwnRows(tasks, a), a, i)
        /\ \A i \in DOMAIN tasks, j \in RequestIds \ DOMAIN tasks :
               tasks[i].user_id # a =>
                   LET R == ByIdResponses(tasks, a, i)
                   IN /\ R = ByIdResponses(tasks, a, j)
                      /\ R[1].status = HTTP_404_NOT_FOUND
                      /\ R[4].status = HTTP_404_NOT_FOUND
                      /\ \A d \in TaskUpdate : R[2][d].status = HTTP_404_NOT_FOUND
                      /\ \A d \in CompletedOnly : R[3][d].status = HTTP_404_NOT_FOUND

C3_Witness ==
    \E a \in Users, i \in DOMAIN tasks, j \in RequestIds \ DOMAIN tasks :
        /\ tasks[i].user_id # a
        /\ get_task(tasks, a, i).resp = get_task(tasks, a, j).resp
        /\ get_task(tasks, tasks[i].user_id, i).resp.status = HTTP_200_OK

\* C4: for every stored task and every value of completed in the body (absent,
\* true, false), update and toggle leave the same completed value and the
\* same nullness of completed_at.
C4_SameCoupling ==
    \A i \in DOMAIN tasks, c \in Opt(BOOLEAN) :
        LET a == tasks[i].user_id
            u == update_task(tasks, a, i, CompletedPatch(c), now).store[i]
            g == toggle_task_completion(tasks, a, i, CompletedPatch(c), now).store[i]
        IN /\ u.completed = g.completed
           /\ (u.completed_at = None) <=> (g.completed_at = None)

\* C5: update keeps title, description and completed when the body omits them;
\* update and toggle never change id, user_id or created_at; and the owner of
\* every stored task is the user who created it.
C5_UpdateFrame ==
    /\ \A i \in DOMAIN tasks : i \in DOMAIN creator /\ tasks[i].user_id = creator[i]
    /\ \A a \in Users, i \in DOMAIN tasks :
        LET old == tasks[i]
        IN /\ \A d \in TaskUpdate :
               LET u == update_task(tasks, a, i, d, now).store
               IN /\ i \in DOMAIN u
                  /\ d.title = None => u[i].title = old.title
                  /\ d.description = None => u[i].description = old.description
                  /\ d.completed = None => u[i].completed = old.completed
                  /\ u[i].id = old.id
                  /\ u[i].user_id = old.user_id
                  /\ u[i].created_at = old.created_at
           /\ \A d \in CompletedOnly :
               LET g == toggle_task_completion(tasks, a, i, d, now).store
               IN /\ i \in DOMAIN g
                  /\ d.completed = None => g[i].completed = old.completed
                  /\ g[i].title = old.title
                  /\ g[i].description = old.description
                  /\ g[i].id = old.id
                  /\ g[i].user_id = old.user_id
                  /\ g[i].created_at = old.created_at

C5_Witness ==
    \E i \in DOMAIN tasks :
        /\ tasks[i].updated_at > tasks[i].created_at
        /\ tasks[i].description # None
        /\ tasks[i].title = "t2"
        /\ update_task(tasks, tasks[i].user_id, i, EmptyPatch, now).store[i].description
               = tasks[i].description

\* C8: for every filter, the counts of the list response are the counts over
\* all tasks of the caller: total the number owned, pending those not
\* completed, completed those completed.
C8_CountsOverOwnerSet ==
    \A a \in Users, f \in StatusFilters :
        LET owned == {i \in DOMAIN tasks : tasks[i].user_id = a}
            r == list_tasks(tasks, a, f).resp
            wanted == IF f = "pending" THEN {i \in owned : ~tasks[i].completed}
                      ELSE IF f = "completed" THEN {i \in owned : tasks[i].completed}
                      ELSE owned
        IN /\ r.body = {tasks[i] : i \in wanted}
           /\ r.counts[1].total = Cardinality(owned)
           /\ r.counts[1].pending = Cardinality({i \in owned : ~tasks[i].completed})
           /\ r.counts[1].completed = Cardinality({i \in owned : tasks[i].completed})

\* C9: every create request stores a row with completed false, completed_at
\* null and user_id the caller, whatever the body holds, and returns that row.
C9_CreateForcesPending ==
    [][next_id' # next_id =>
         /\ next_id \in DOMAIN tasks'
         /\ tasks'[next_id].completed = FALSE
         /\ tasks'[next_id].completed_at = None
         /\ tasks'[next_id].user_id = creator'[next_id]
         /\ \A d \in TaskCreate :
                LET r == create_task(tasks, next_id, creator'[next_id], d, now)
                IN /\ r.resp.status = HTTP_201_CREATED
                   /\ r.resp.body = {r.store[next_id]}
                   /\ r.store[next_id].completed = FALSE
                   /\ r.store[next_id].completed_at = None
                   /\ r.store[next_id].user_id = creator'[next_id]]_vars

C9_Witness ==
    \E i \in DOMAIN tasks :
        /\ tasks[i].created_at = tasks[i].updated_at
        /\ tasks[i].completed = FALSE
        /\ tasks[i].completed_at = None
        /\ tasks[i].user_id = creator[i]
        /\ now = tasks[i].created_at

\* Outcome r of an update or toggle request for id i at the instant now.
Advanced(i, r) ==
    IF r.resp.status = HTTP_200_OK
    THEN /\ r.store[i].updated_at = now
         /\ tasks[i].updated_at < now => r.store[i].updated_at > tasks[i].updated_at
    ELSE r.store = tasks

\* C10: a successful update or toggle sets updated_at to the instant of the
\* call, which no stored updated_at exceeds, so a call at a later instant
\* strictly advances it, whatever the body; a call answered 404 changes no row.
C10_UpdatedAtAdvances ==
    /\ \A i \in DOMAIN tasks : tasks[i].updated_at <= now
    /\ \A a \in Users, i \in RequestIds :
        /\ \A d \in TaskUpdate : Advanced(i, update_task(tasks, a, i, d, now))
        /\ \A d \in CompletedOnly : Advanced(i, toggle_task_completion(tasks, a, i, d, now))

C10_Witness ==
    \E i \in DOMAIN tasks :
        /\ tasks[i].created_at < tasks[i].updated_at
        /\ tasks[i].updated_at < now
        /\ update_task(tasks, tasks[i].user_id, i, EmptyPatch, now).store[i].updated_at = now

\* C6: a token issued at t0 with time-to-live ttl (7 days when none is passed,
\* otherwise the duration passed, zero included) expires at t0 + ttl: it is
\* accepted at every instant before and rejected with None at every instant after.
C6_TokenLifetime ==
    token # None =>
        LET ttl == IF issued[1].ttl = None THEN JWT_EXPIRATION ELSE issued[1].ttl[1]
            expiry == issued[1].t0 + ttl
        IN /\ token[1].exp = expiry
           /\ token[1].user_id = issued[1].user_id
           /\ verified # None =>
                  /\ verified[1].at < expiry => verified[1].result = Some(token[1])
                  /\ verified[1].at > expiry => verified[1].result = None

\* C7: a signup with the email of a stored user is answered 400 with no token
\* and leaves the user rows as they were; no two rows share an email.
C7_DuplicateSignupRejected ==
    /\ \A u1 \in users, u2 \in users : u1.email = u2.email => u1 = u2
    /\ \A d \in SignupRequest :
           UsersByEmail(users, d.email) # {} =>
               LET r == signup(users, next_user, d, now)
               IN /\ r.resp.status = HTTP_400_BAD_REQUEST
                  /\ r.resp.detail = EmailRegisteredDetail
                  /\ r.resp.access_token = None
                  /\ r.users = users
    /\ (auth_last # None /\ auth_last[1].op = "signup") =>
           /\ UsersByEmail(users, auth_last[1].email) # {}
           /\ auth_last[1].resp.status = HTTP_400_BAD_REQUEST
                  => auth_last[1].resp.access_token = None

C7_Witness ==
    /\ auth_last # None
    /\ auth_last[1].op = "signup"
    /\ auth_last[1].resp.status = HTTP_400_BAD_REQUEST
    /\ Cardinality(users) = 1

\* C11: under every interleaving of the checks and commits of concurrent
\* signups, no two stored users share an email; an insert whose email was
\* stored after its check is refused by the unique constraint.
C11_UniqueEmailUnderRace ==
    /\ \A u1 \in users, u2 \in users : u1.email = u2.email => u1 = u2
    /\ \A s \in Sessions :
           signup_reqs[s].status = HTTP_500_INTERNAL_SERVER_ERROR =>
               Cardinality(users) >= 1

C11_Witness ==
    \E s \in Sessions, t \in Sessions :
        /\ signup_reqs[s].status = HTTP_201_CREATED
        /\ signup_reqs[t].status = HTTP_500_INTERNAL_SERVER_ERROR
        /\ Cardinality(users) = 1

\* C12: after every commit of concurrently running update and toggle requests
\* on a task, the stored task is either completed with completed_at set or
\* pending with completed_at null.
C12_CoupledUnderRace ==
    \A i \in DOMAIN tasks :
        \/ tasks[i].completed /\ tasks[i].completed_at # None
        \/ ~tasks[i].completed /\ tasks[i].completed_at = None

====
